---- MODULE Spec2Model ----
(***************************************************************************)
(* A model of SidFile::parse (src/src/lib.rs): the decoder of a PSID/RSID  *)
(* header.  The reader is a cursor over the input buffer; every            *)
(* `let x = Self::get_x(&mut reader)?;` of parse is one action, and every  *)
(* get_x is an operator from the reader (and the earlier locals it is      *)
(* given) to a Result: [err, val, pos].                                    *)
(*                                                                         *)
(* Bytes are 0..255, words 0..65535; a String is the sequence of its code  *)
(* points; Option<T> is a sequence of length 0 (None) or 1 (Some).  The    *)
(* inputs keep the first byte of every 32-bit field below 0x80, so that    *)
(* its value stays within the integers TLC computes with.                  *)
(***************************************************************************)
EXTENDS Integers, Sequences, FiniteSets, TLC

VARIABLES reader, pc, local, err, result

vars == <<reader, pc, local, err, result>>

(***************************************************************************)
(* Results.  An io::Error is modelled by its message; the truncation       *)
(* error is the UnexpectedEof that read_exact returns.                     *)
(***************************************************************************)
UnexpectedEof == "UnexpectedEof"

Ok(v, p) == [err |-> "", val |-> v, pos |-> p]

Err(msg, p) == [err |-> msg, val |-> <<>>, pos |-> p]

(***************************************************************************)
(* The reads of std::io::Read and byteorder::ReadBytesExt on a Cursor.     *)
(***************************************************************************)
read_exact(r, n) ==
    IF r.pos + n <= Len(r.inner)
    THEN Ok(SubSeq(r.inner, r.pos + 1, r.pos + n), r.pos + n)
    ELSE Err(UnexpectedEof, r.pos)

read_u8(r) ==
    LET b == read_exact(r, 1)
    IN IF b.err # "" THEN b ELSE Ok(b.val[1], b.pos)

read_u16_BigEndian(r) ==
    LET b == read_exact(r, 2)
    IN IF b.err # "" THEN b ELSE Ok(b.val[1] * 256 + b.val[2], b.pos)

read_u16_LittleEndian(r) ==
    LET b == read_exact(r, 2)
    IN IF b.err # "" THEN b ELSE Ok(b.val[1] + b.val[2] * 256, b.pos)

read_u32_BigEndian(r) ==
    LET b == read_exact(r, 4)
    IN IF b.err # "" THEN b
       ELSE Ok(((b.val[1] * 256 + b.val[2]) * 256 + b.val[3]) * 256 + b.val[4],
               b.pos)

read_to_end(r) ==
    Ok(SubSeq(r.inner, r.pos + 1, Len(r.inner)), Len(r.inner))

(***************************************************************************)
(* The field decoders.                                                     *)
(***************************************************************************)
get_file_type(r) ==
    LET file_type == read_u32_BigEndian(r)
    IN IF file_type.err # "" THEN file_type
       ELSE CASE file_type.val = \H52534944 -> Ok("RSID", file_type.pos)
              [] file_type.val = \H50534944 -> Ok("PSID", file_type.pos)
              [] OTHER -> Err("Invalid file_type", file_type.pos)

get_version(r, file_type) ==
    LET version == read_u16_BigEndian(r)
    IN IF version.err # "" THEN version
       ELSE CASE version.val = 1 -> Ok("V1", version.pos)
              [] file_type \in {"PSID", "RSID"} /\ version.val = 2 ->
                    Ok("V2", version.pos)
              [] file_type \in {"PSID", "RSID"} /\ version.val = 3 ->
                    Ok("V3", version.pos)
              [] file_type \in {"PSID", "RSID"} /\ version.val = 4 ->
                    Ok("V4", version.pos)
              [] OTHER -> Err("Invalid version", version.pos)

get_data_offset(r, version) ==
    LET data_offset == read_u16_BigEndian(r)
    IN IF data_offset.err # "" THEN data_offset
       ELSE CASE version = "V1" /\ data_offset.val = \H76 ->
                    Ok(\H76, data_offset.pos)
              [] version = "V2" /\ data_offset.val = \H7C ->
                    Ok(\H7C, data_offset.pos)
              [] version = "V3" /\ data_offset.val = \H7C ->
                    Ok(\H7C, data_offset.pos)
              [] version = "V4" /\ data_offset.val = \H7C ->
                    Ok(\H7C, data_offset.pos)
              [] OTHER -> Err("Invalid data offset", data_offset.pos)

get_load_address(r) == read_u16_BigEndian(r)

(* mutant: the load address of the data read big-endian like the rest *)
get_real_load_address_BigEndian(r) == read_u16_BigEndian(r)

get_real_load_address(r) == read_u16_LittleEndian(r)

(* mutant: the RSID arm takes any play address *)
get_play_address_unchecked(r, file_type) ==
    LET play_address == read_u16_BigEndian(r)
    IN IF play_address.err # "" THEN play_address
       ELSE CASE file_type = "RSID" /\ play_address.val \in 0..\HFFFF ->
                    play_address
              [] file_type = "PSID" /\ play_address.val \in 0..\HFFFF ->
                    play_address
              [] OTHER -> Err("Invalid play address", play_address.pos)

get_play_address(r, file_type) ==
    LET play_address == read_u16_BigEndian(r)
    IN IF play_address.err # "" THEN play_address
       ELSE CASE file_type = "RSID" /\ play_address.val = 0 -> play_address
              [] file_type = "PSID" /\ play_address.val \in 0..\HFFFF ->
                    play_address
              [] OTHER -> Err("Invalid play address", play_address.pos)

get_init_address(r, file_type) ==
    LET init_address == read_u16_BigEndian(r)
    IN IF init_address.err # "" THEN init_address
       ELSE CASE file_type = "RSID" /\ init_address.val \in \H07E8..\H9FFF ->
                    init_address
              [] file_type = "RSID" /\ init_address.val \in \HC000..\HCFFF ->
                    init_address
              [] file_type = "PSID" /\ init_address.val \in 0..\HFFFF ->
                    init_address
              [] OTHER -> Err("Invalid init address", init_address.pos)

get_songs(r) ==
    LET songs == read_u16_BigEndian(r)
    IN IF songs.err # "" THEN songs
       ELSE IF songs.val \in 1..\H0100 THEN songs
       ELSE Err("Invalid number of songs", songs.pos)

(* mutant: start_song < songs instead of start_song <= songs *)
get_start_song_below(r, songs) ==
    LET start_song == read_u16_BigEndian(r)
    IN IF start_song.err # "" THEN start_song
       ELSE IF start_song.val < songs THEN start_song
       ELSE Err("Invalid start song", start_song.pos)

get_start_song(r, songs) ==
    LET start_song == read_u16_BigEndian(r)
    IN IF start_song.err # "" THEN start_song
       ELSE IF start_song.val <= songs THEN start_song
       ELSE Err("Invalid start song", start_song.pos)

get_speed(r, file_type) ==
    LET speed == read_u32_BigEndian(r)
    IN IF speed.err # "" THEN speed
       ELSE CASE file_type = "RSID" /\ speed.val = 0 -> speed
              [] file_type = "PSID" -> speed
              [] OTHER -> Err("Invalid speed", speed.pos)

(***************************************************************************)
(* String::from_utf8_lossy: every valid UTF-8 sequence becomes its code    *)
(* point, every maximal invalid prefix one U+FFFD.  Utf8Step decodes the   *)
(* chunk that starts at byte i and says how many bytes it took.            *)
(***************************************************************************)
ByteAt(b, j) == IF j <= Len(b) THEN b[j] ELSE 0

IsCont(x) == x \in \H80..\HBF

Utf8Second3(f, s) ==
    \/ f = \HE0 /\ s \in \HA0..\HBF
    \/ f \in \HE1..\HEC /\ s \in \H80..\HBF
    \/ f = \HED /\ s \in \H80..\H9F
    \/ f \in \HEE..\HEF /\ s \in \H80..\HBF

Utf8Second4(f, s) ==
    \/ f = \HF0 /\ s \in \H90..\HBF
    \/ f \in \HF1..\HF3 /\ s \in \H80..\HBF
    \/ f = \HF4 /\ s \in \H80..\H8F

Utf8Step(b, i) ==
    LET f == b[i]
        s == ByteAt(b, i + 1)
        t == ByteAt(b, i + 2)
        u == ByteAt(b, i + 3)
        Bad(n) == [ch |-> \HFFFD, n |-> n]
    IN  CASE f < \H80 -> [ch |-> f, n |-> 1]
          [] f \in \HC2..\HDF ->
                IF IsCont(s)
                THEN [ch |-> (f % 32) * 64 + (s % 64), n |-> 2]
                ELSE Bad(1)
          [] f \in \HE0..\HEF ->
                IF ~Utf8Second3(f, s) THEN Bad(1)
                ELSE IF ~IsCont(t) THEN Bad(2)
                ELSE [ch |-> ((f % 16) * 64 + (s % 64)) * 64 + (t % 64), n |-> 3]
          [] f \in \HF0..\HF4 ->
                IF ~Utf8Second4(f, s) THEN Bad(1)
                ELSE IF ~IsCont(t) THEN Bad(2)
                ELSE IF ~IsCont(u) THEN Bad(3)
                ELSE [ch |-> (((f % 8) * 64 + (s % 64)) * 64 + (t % 64)) * 64
                               + (u % 64),
                      n |-> 4]
          [] OTHER -> Bad(1)

RECURSIVE Utf8From(_, _)
Utf8From(b, i) ==
    IF i > Len(b) THEN <<>>
    ELSE LET c == Utf8Step(b, i) IN <<c.ch>> \o Utf8From(b, i + c.n)

from_utf8_lossy(b) == Utf8From(b, 1)

(***************************************************************************)
(* str::trim_matches(c): the slice between the first and the last          *)
(* character that is not c.                                                *)
(***************************************************************************)
trim_matches(s, c) ==
    LET keep == {i \in 1..Len(s) : s[i] # c}
    IN  IF keep = {} THEN <<>>
        ELSE SubSeq(s, CHOOSE i \in keep : \A j \in keep : i <= j,
                       CHOOSE i \in keep : \A j \in keep : i >= j)

get_name(r) ==
    LET name == read_exact(r, 32)
    IN IF name.err # "" THEN name
       ELSE Ok(trim_matches(from_utf8_lossy(name.val), 0), name.pos)

get_author(r) ==
    LET author == read_exact(r, 32)
    IN IF author.err # "" THEN author
       ELSE Ok(trim_matches(from_utf8_lossy(author.val), 0), author.pos)

get_released(r) ==
    LET released == read_exact(r, 32)
    IN IF released.err # "" THEN released
       ELSE Ok(trim_matches(from_utf8_lossy(released.val), 0), released.pos)

(***************************************************************************)
(* The flags word.  bits is the Vec<bool> of get_flags: one false entry,   *)
(* then bit n of the word for n = 0..15, pushed in that order; Index reads *)
(* a Vec by its 0-based index.                                             *)
(***************************************************************************)
Index(v, i) == v[i + 1]

get_sid_model(bit0, bit1) ==
    CASE ~bit0 /\ ~bit1 -> "Unknown"
      [] ~bit0 /\ bit1 -> "MOS6581"
      [] bit0 /\ ~bit1 -> "MOS8580"
      [] bit0 /\ bit1 -> "Both"

get_flags(r) ==
    LET flags == read_u16_BigEndian(r)
        bits == <<FALSE>> \o
                [k \in 1..16 |-> ((flags.val \div (2 ^ (k - 1))) % 2) = 1]
        format == IF Index(bits, 0) THEN "MusData" ELSE "InternalPlayer"
        play_sid == IF Index(bits, 1) THEN "PlaySID" ELSE "C64"
        clock == CASE ~Index(bits, 2) /\ ~Index(bits, 3) -> "Unknown"
                   [] ~Index(bits, 2) /\ Index(bits, 3) -> "PAL"
                   [] Index(bits, 2) /\ ~Index(bits, 3) -> "NTSC"
                   [] Index(bits, 2) /\ Index(bits, 3) -> "Both"
        sid_model == get_sid_model(Index(bits, 4), Index(bits, 5))
        second_sid_model == get_sid_model(Index(bits, 6), Index(bits, 7))
        third_sid_model == get_sid_model(Index(bits, 8), Index(bits, 9))
    IN IF flags.err # "" THEN flags
       ELSE IF \E i \in 10..15 : Index(bits, i)
       THEN Err("Invalid flags", flags.pos)
       ELSE Ok([format |-> format,
                play_sid |-> play_sid,
                clock |-> clock,
                sid_model |-> sid_model,
                second_sid_model |-> second_sid_model,
                third_sid_model |-> third_sid_model],
               flags.pos)

get_start_page(r) == read_u8(r)

get_page_length(r) == read_u8(r)

(* mutant: a SID address read as a word *)
get_sid_address_word(r) == read_u16_BigEndian(r)

get_sid_address(r) == read_u8(r)

(* mutant: the data read with read_exact semantics, at least one byte *)
get_data_nonempty(r) ==
    IF r.pos = Len(r.inner) THEN Err(UnexpectedEof, r.pos) ELSE read_to_end(r)

get_data(r) == read_to_end(r)

(***************************************************************************)
(* parse.  pc names the statement about to run; `?` returns the error to   *)
(* the caller (err is set and nothing runs after it), otherwise the local  *)
(* is bound and the cursor has advanced.                                   *)
(***************************************************************************)
Bind(name, res, next) ==
    IF res.err # ""
    THEN /\ err' = res.err
         /\ UNCHANGED <<reader, pc, local, result>>
    ELSE /\ local' = local @@ (name :> res.val)
         /\ reader' = [reader EXCEPT !.pos = res.pos]
         /\ pc' = next
         /\ UNCHANGED <<err, result>>

At(step) == pc = step /\ err = ""

(* mutant: V2 takes the V1 arm *)
match_version_V2_as_V1(version) ==
    IF version \in {"V1", "V2"} THEN "V1" ELSE "_"

match_version(version) == IF version = "V1" THEN "V1" ELSE "_"

LetFileType == At("file_type") /\ Bind("file_type", get_file_type(reader), "version")

LetVersion ==
    At("version") /\ Bind("version", get_version(reader, local.file_type), "data_offset")

LetDataOffset ==
    At("data_offset")
    /\ Bind("data_offset", get_data_offset(reader, local.version), "load_address")

LetLoadAddress ==
    At("load_address") /\ Bind("load_address", get_load_address(reader), "init_address")

LetInitAddress ==
    At("init_address")
    /\ Bind("init_address", get_init_address(reader, local.file_type), "play_address")

LetPlayAddress ==
    At("play_address")
    /\ Bind("play_address", get_play_address(reader, local.file_type), "songs")

LetSongs == At("songs") /\ Bind("songs", get_songs(reader), "start_song")

LetStartSong ==
    At("start_song") /\ Bind("start_song", get_start_song(reader, local.songs), "speed")

LetSpeed == At("speed") /\ Bind("speed", get_speed(reader, local.file_type), "name")

LetName == At("name") /\ Bind("name", get_name(reader), "author")

LetAuthor == At("author") /\ Bind("author", get_author(reader), "released")

LetReleased == At("released") /\ Bind("released", get_released(reader), "match")

MatchVersion ==
    /\ At("match")
    /\ pc' = IF match_version(local.version) = "V1"
             THEN "V1.real_load_address" ELSE "flags"
    /\ UNCHANGED <<reader, local, err, result>>

V1RealLoadAddress ==
    At("V1.real_load_address")
    /\ Bind("real_load_address", get_real_load_address(reader), "V1.data")

V1Data == At("V1.data") /\ Bind("data", get_data(reader), "V1.Ok")

V1Ok ==
    /\ At("V1.Ok")
    /\ result' = <<[file_type |-> local.file_type,
                    version |-> local.version,
                    data_offset |-> local.data_offset,
                    load_address |-> local.load_address,
                    init_address |-> local.init_address,
                    play_address |-> local.play_address,
                    songs |-> local.songs,
                    start_song |-> local.start_song,
                    speed |-> local.speed,
                    name |-> local.name,
                    author |-> local.author,
                    released |-> local.released,
                    real_load_address |-> local.real_load_address,
                    data |-> local.data,
                    flags |-> <<>>,
                    start_page |-> <<>>,
                    page_length |-> <<>>,
                    second_sid_address |-> <<>>,
                    third_sid_address |-> <<>>]>>
    /\ pc' = "return"
    /\ UNCHANGED <<reader, local, err>>

LetFlags == At("flags") /\ Bind("flags", get_flags(reader), "start_page")

LetStartPage == At("start_page") /\ Bind("start_page", get_start_page(reader), "page_length")

LetPageLength ==
    At("page_length")
    /\ Bind("page_length", get_page_length(reader), "second_sid_address")

LetSecondSidAddress ==
    At("second_sid_address")
    /\ Bind("second_sid_address", get_sid_address(reader), "third_sid_address")

LetThirdSidAddress ==
    At("third_sid_address")
    /\ Bind("third_sid_address", get_sid_address(reader), "real_load_address")

LetRealLoadAddress ==
    At("real_load_address")
    /\ Bind("real_load_address", get_real_load_address(reader), "data")

LetData == At("data") /\ Bind("data", get_data(reader), "Ok")

ReturnOk ==
    /\ At("Ok")
    /\ result' = <<[file_type |-> local.file_type,
                    version |-> local.version,
                    data_offset |-> local.data_offset,
                    load_address |-> local.load_address,
                    init_address |-> local.init_address,
                    play_address |-> local.play_address,
                    songs |-> local.songs,
                    start_song |-> local.start_song,
                    speed |-> local.speed,
                    name |-> local.name,
                    author |-> local.author,
                    released |-> local.released,
                    real_load_address |-> local.real_load_address,
                    flags |-> <<local.flags>>,
                    start_page |-> <<local.start_page>>,
                    page_length |-> <<local.page_length>>,
                    second_sid_address |-> <<local.second_sid_address>>,
                    third_sid_address |-> <<local.third_sid_address>>,
                    data |-> local.data]>>
    /\ pc' = "return"
    /\ UNCHANGED <<reader, local, err>>

Next ==
    \/ LetFileType
    \/ LetVersion
    \/ LetDataOffset
    \/ LetLoadAddress
    \/ LetInitAddress
    \/ LetPlayAddress
    \/ LetSongs
    \/ LetStartSong
    \/ LetSpeed
    \/ LetName
    \/ LetAuthor
    \/ LetReleased
    \/ MatchVersion
    \/ V1RealLoadAddress
    \/ V1Data
    \/ V1Ok
    \/ LetFlags
    \/ LetStartPage
    \/ LetPageLength
    \/ LetSecondSidAddress
    \/ LetThirdSidAddress
    \/ LetRealLoadAddress
    \/ LetData
    \/ ReturnOk

(***************************************************************************)
(* parse as a function of the input: the same statements run to the        *)
(* return.  at is the statement that returned (the failing `?`, or         *)
(* "return"), err its error, result the Ok value.                          *)
(***************************************************************************)
Returned(at, e, res) == [at |-> at, err |-> e, result |-> res]

Advance(r, res) == [r EXCEPT !.pos = res.pos]

parse_V1(released, c) ==
    LET real_load_address == get_real_load_address(Advance(c.reader, released))
        data == get_data(Advance(c.reader, real_load_address))
    IN  IF real_load_address.err # ""
        THEN Returned("V1.real_load_address", real_load_address.err, <<>>)
        ELSE IF data.err # "" THEN Returned("V1.data", data.err, <<>>)
        ELSE Returned("return", "",
               <<[file_type |-> c.file_type,
                  version |-> c.version,
                  data_offset |-> c.data_offset,
                  load_address |-> c.load_address,
                  init_address |-> c.init_address,
                  play_address |-> c.play_address,
                  songs |-> c.songs,
                  start_song |-> c.start_song,
                  speed |-> c.speed,
                  name |-> c.name,
                  author |-> c.author,
                  released |-> released.val,
                  real_load_address |-> real_load_address.val,
                  data |-> data.val,
                  flags |-> <<>>,
                  start_page |-> <<>>,
                  page_length |-> <<>>,
                  second_sid_address |-> <<>>,
                  third_sid_address |-> <<>>]>>)

parse_ext(released, c) ==
    LET r == c.reader
        flags == get_flags(Advance(r, released))
        start_page == get_start_page(Advance(r, flags))
        page_length == get_page_length(Advance(r, start_page))
        second_sid_address == get_sid_address(Advance(r, page_length))
        third_sid_address == get_sid_address(Advance(r, second_sid_address))
        real_load_address == get_real_load_address(Advance(r, third_sid_address))
        data == get_data(Advance(r, real_load_address))
    IN  IF flags.err # "" THEN Returned("flags", flags.err, <<>>)
        ELSE IF start_page.err # ""
        THEN Returned("start_page", start_page.err, <<>>)
        ELSE IF page_length.err # ""
        THEN Returned("page_length", page_length.err, <<>>)
        ELSE IF second_sid_address.err # ""
        THEN Returned("second_sid_address", second_sid_address.err, <<>>)
        ELSE IF third_sid_address.err # ""
        THEN Returned("third_sid_address", third_sid_address.err, <<>>)
        ELSE IF real_load_address.err # ""
        THEN Returned("real_load_address", real_load_address.err, <<>>)
        ELSE IF data.err # "" THEN Returned("data", data.err, <<>>)
        ELSE Returned("return", "",
               <<[file_type |-> c.file_type,
                  version |-> c.version,
                  data_offset |-> c.data_offset,
                  load_address |-> c.load_address,
                  init_address |-> c.init_address,
                  play_address |-> c.play_address,
                  songs |-> c.songs,
                  start_song |-> c.start_song,
                  speed |-> c.speed,
                  name |-> c.name,
                  author |-> c.author,
                  released |-> released.val,
                  real_load_address |-> real_load_address.val,
                  flags |-> <<flags.val>>,
                  start_page |-> <<start_page.val>>,
                  page_length |-> <<page_length.val>>,
                  second_sid_address |-> <<second_sid_address.val>>,
                  third_sid_address |-> <<third_sid_address.val>>,
                  data |-> data.val]>>)

parse(data) ==
    LET r == [inner |-> data, pos |-> 0]
        file_type == get_file_type(r)
        version == get_version(Advance(r, file_type), file_type.val)
        data_offset == get_data_offset(Advance(r, version), version.val)
        load_address == get_load_address(Advance(r, data_offset))
        init_address == get_init_address(Advance(r, load_address), file_type.val)
        play_address == get_play_address(Advance(r, init_address), file_type.val)
        songs == get_songs(Advance(r, play_address))
        start_song == get_start_song(Advance(r, songs), songs.val)
        speed == get_speed(Advance(r, start_song), file_type.val)
        name == get_name(Advance(r, speed))
        author == get_author(Advance(r, name))
        released == get_released(Advance(r, author))
        common == [reader |-> r,
                   file_type |-> file_type.val,
                   version |-> version.val,
                   data_offset |-> data_offset.val,
                   load_address |-> load_address.val,
                   init_address |-> init_address.val,
                   play_address |-> play_address.val,
                   songs |-> songs.val,
                   start_song |-> start_song.val,
                   speed |-> speed.val,
                   name |-> name.val,
                   author |-> author.val]
    IN  IF file_type.err # "" THEN Returned("file_type", file_type.err, <<>>)
        ELSE IF version.err # "" THEN Returned("version", version.err, <<>>)
        ELSE IF data_offset.err # ""
        THEN Returned("data_offset", data_offset.err, <<>>)
        ELSE IF load_address.err # ""
        THEN Returned("load_address", load_address.err, <<>>)
        ELSE IF init_address.err # ""
        THEN Returned("init_address", init_address.err, <<>>)
        ELSE IF play_address.err # ""
        THEN Returned("play_address", play_address.err, <<>>)
        ELSE IF songs.err # "" THEN Returned("songs", songs.err, <<>>)
        ELSE IF start_song.err # ""
        THEN Returned("start_song", start_song.err, <<>>)
        ELSE IF speed.err # "" THEN Returned("speed", speed.err, <<>>)
        ELSE IF name.err # "" THEN Returned("name", name.err, <<>>)
        ELSE IF author.err # "" THEN Returned("author", author.err, <<>>)
        ELSE IF released.err # "" THEN Returned("released", released.err, <<>>)
        ELSE IF match_version(version.val) = "V1"
        THEN parse_V1(released, common)
        ELSE parse_ext(released, common)

(***************************************************************************)
(* The inputs.  A file is written field by field from a record of header   *)
(* values (big-endian words, the load address of the data little-endian),  *)
(* with the extended block when the version word is not 1.  The families   *)
(* below vary one group of fields each around a valid file.                *)
(***************************************************************************)
MaxPayload == 2

MaxBody == 3

MaxFlagBits == 2

BE16(w) == <<w \div 256, w % 256>>

BE32(x) == BE16(x \div 65536) \o BE16(x % 65536)

Slot(body, fill) == body \o [i \in 1..(32 - Len(body)) |-> fill]

File(h) ==
    BE32(h.magic) \o BE16(h.version) \o BE16(h.data_offset)
    \o BE16(h.load_address) \o BE16(h.init_address) \o BE16(h.play_address)
    \o BE16(h.songs) \o BE16(h.start_song) \o BE32(h.speed)
    \o h.name \o h.author \o h.released
    \o (IF h.version = 1 THEN <<>>
        ELSE BE16(h.flags)
             \o <<h.start_page, h.page_length, h.second_sid_address,
                  h.third_sid_address>>)
    \o <<h.real_lo, h.real_hi>> \o h.payload

RSID == \H52534944

PSID == \H50534944

Base ==
    [magic |-> PSID, version |-> 2, data_offset |-> \H7C,
     load_address |-> \H1000, init_address |-> \H1000, play_address |-> 0,
     songs |-> 3, start_song |-> 1, speed |-> 0,
     name |-> Slot(<<\H4E>>, 0), author |-> Slot(<<\H41, \H75>>, 0),
     released |-> Slot(<<\H31, \H39>>, 0),
     flags |-> \H0014, start_page |-> 4, page_length |-> 5,
     second_sid_address |-> \H42, third_sid_address |-> \H44,
     real_lo |-> \H34, real_hi |-> \H12, payload |-> <<\HA9>>]

Versioned(h, v) ==
    [h EXCEPT !.version = v, !.data_offset = IF v = 1 THEN \H76 ELSE \H7C]

Kinds == {RSID, PSID}

Payloads == UNION {[1..n -> {\H00, \HA9}] : n \in 0..MaxPayload}

Bodies == UNION {[1..n -> {\H00, \H41, \HE9}] : n \in 0..MaxBody}

Slots == {Slot(b, fill) : b \in Bodies, fill \in {\H00, \H2E}}

Bit(w, n) == (w \div (2 ^ n)) % 2

RECURSIVE WordsOfBits(_)
WordsOfBits(k) ==
    IF k = 0 THEN {0}
    ELSE LET fewer == WordsOfBits(k - 1)
         IN  fewer \cup {w + 2 ^ n : <<w, n>> \in
                            {x \in fewer \X (0..15) : Bit(x[1], x[2]) = 0}}

FlagWords == WordsOfBits(MaxFlagBits) \cup {\H03FF, \HFFFF}

InitAddresses ==
    {0, \H07E7, \H07E8, \H9FFF, \HA000, \HBFFF, \HC000, \HCFFF, \HD000, \HFFFF}

SongCounts == {0, 1, 2, \H0100, \H0101, \HFFFF}

(* type, version and data offset *)
KindFiles ==
    {File([Base EXCEPT !.magic = m, !.version = v, !.data_offset = o]) :
        m \in Kinds \cup {\H53494450}, v \in 0..5, o \in {\H76, \H7C, \H7D}}

(* the RSID rules on the init address, the play address and the speed *)
AddressFiles ==
    {File([Versioned(Base, v) EXCEPT !.magic = m, !.init_address = i,
                                     !.play_address = p, !.speed = s]) :
        m \in Kinds, v \in {1, 2}, i \in InitAddresses, p \in {0, 1, \HFFFF},
        s \in {0, 1, \H7FFFFFFF}}

(* the song count and the start song *)
SongFiles ==
    {File([Versioned(Base, v) EXCEPT !.magic = m, !.songs = n, !.start_song = k]) :
        m \in Kinds, v \in {1, 3}, n \in SongCounts, k \in SongCounts \cup {3}}

(* the flags word *)
FlagFiles ==
    {File([Versioned(Base, v) EXCEPT !.flags = f]) : v \in {2, 3, 4}, f \in FlagWords}

(* the three text slots *)
TextFiles ==
    {File([Versioned(Base, v) EXCEPT ![k] = s]) :
        v \in {1, 2}, k \in {"name", "author", "released"}, s \in Slots}

(* the load address of the data, and the data *)
DataFiles ==
    {File([Versioned(Base, v) EXCEPT !.magic = m, !.load_address = l,
                                     !.real_lo = lo, !.real_hi = hi,
                                     !.payload = d]) :
        m \in Kinds, v \in 1..4, l \in {0, \H1000}, lo \in {\H00, \HFF},
        hi \in {\H00, \H12}, d \in Payloads}

(* several fields wrong at once, and the file cut short *)
Choice(bad, x, y) == IF bad THEN x ELSE y

BrokenFiles ==
    {File([Versioned(Base, Choice(b[2], 5, v)) EXCEPT
              !.magic = Choice(b[1], \H53494450, RSID),
              !.data_offset = Choice(b[3], \H7D, @),
              !.init_address = Choice(b[4], \H07E7, \H1000),
              !.play_address = Choice(b[5], 1, 0),
              !.songs = Choice(b[6], 0, 2),
              !.start_song = Choice(b[7], 3, 2),
              !.speed = Choice(b[8], 1, 0),
              !.flags = Choice(b[9], \H0400, \H0014)]) :
        v \in {1, 2}, b \in [1..9 -> BOOLEAN]}

Cuts ==
    {0, 3, 4, 5, 6, 7, 8, 10, 11, 12, 14, 15, 16, 18, 21, 22, 53, 54, 85, 86,
     117, 118, 119, 120, 121, 122, 123, 124, 125, 126}

Prefix(f, n) == SubSeq(f, 1, IF n < Len(f) THEN n ELSE Len(f))

CutFiles ==
    {Prefix(f, n) : f \in BrokenFiles, n \in Cuts}
    \cup {Prefix(File([Versioned(Base, v) EXCEPT !.magic = m]), n) :
            m \in Kinds, v \in {1, 2}, n \in 0..127}
    \cup {Prefix(File([Base EXCEPT !.flags = f]), n) :
            f \in {\H0200, \H8000}, n \in 118..127}

Inputs ==
    KindFiles \cup AddressFiles \cup SongFiles \cup FlagFiles \cup TextFiles
    \cup DataFiles \cup BrokenFiles \cup CutFiles

Init ==
    /\ reader \in {[inner |-> f, pos |-> 0] : f \in Inputs}
    /\ pc = "file_type"
    /\ local = [x \in {} |-> 0]
    /\ err = ""
    /\ result = <<>>

Spec == Init /\ [][Next]_vars

(***************************************************************************)
(* The actions run parse: a behaviour that has returned holds what parse,  *)
(* as a function of the input, returns.                                    *)
(***************************************************************************)
HasReturned == err # "" \/ pc = "return"

RunIsParse ==
    HasReturned => parse(reader.inner) = Returned(pc, err, result)

(***************************************************************************)
(* What the claims read: the input, the returned SidFile, and the words    *)
(* of the input at their offsets in the file.                              *)
(***************************************************************************)
input == reader.inner

Succeeded == pc = "return"

sid == result[1]

ByteOf(f, off) == f[off + 1]

WordOf(f, off) == ByteOf(f, off) * 256 + ByteOf(f, off + 1)

LongOf(f, off) == WordOf(f, off) * 65536 + WordOf(f, off + 2)

From(f, off) == SubSeq(f, off + 1, Len(f))

(* the statement `step` returned an error although its field, `width`     *)
(* bytes at `off`, is in the input                                         *)
FailedAt(step, off, width) == pc = step /\ err # "" /\ Len(input) >= off + width

Bound(name) == name \in DOMAIN local

(***************************************************************************)
(* C1.  The flags of a decoded V2-V4 file are the bits of the flags word   *)
(* f at offset 0x76, with no shift: format is MusData iff bit 0, play_sid  *)
(* is PlaySID iff bit 1, clock is Unknown/PAL/NTSC/Both for (f>>2)&3 =     *)
(* 0/1/2/3, and the three chip models are Unknown/MOS6581/MOS8580/Both for *)
(* (f>>4)&3, (f>>6)&3, (f>>8)&3 = 0/1/2/3.                                 *)
(***************************************************************************)
ClockOf(n) == <<"Unknown", "PAL", "NTSC", "Both">>[n + 1]

ChipModelOf(n) == <<"Unknown", "MOS6581", "MOS8580", "Both">>[n + 1]

FlagsOf(f) ==
    [format |-> IF Bit(f, 0) = 1 THEN "MusData" ELSE "InternalPlayer",
     play_sid |-> IF Bit(f, 1) = 1 THEN "PlaySID" ELSE "C64",
     clock |-> ClockOf((f \div 4) % 4),
     sid_model |-> ChipModelOf((f \div 16) % 4),
     second_sid_model |-> ChipModelOf((f \div 64) % 4),
     third_sid_model |-> ChipModelOf((f \div 256) % 4)]

C1_FlagsReadWithoutShift ==
    (Succeeded /\ sid.version # "V1") =>
        sid.flags = <<FlagsOf(WordOf(input, \H76))>>

(***************************************************************************)
(* C2.  With every field before the flags word valid and present, decode   *)
(* fails with "Invalid flags" when one of bits 10-15 of the word is set,   *)
(* and a word with bits 10-15 clear is never an invalid-flags error.       *)
(***************************************************************************)
Reserved(f) == f \div 1024 # 0

C2_ReservedBitsRejected ==
    /\ FailedAt("flags", \H76, 2) =>
          err = "Invalid flags" /\ Reserved(WordOf(input, \H76))
    /\ Bound("flags") => ~Reserved(WordOf(input, \H76))

(***************************************************************************)
(* C3.  Original: on success the payload is what follows the header, and   *)
(* the header takes 0x76 + 9 bytes for V1 and 0x7C + 9 bytes for V2-V4.    *)
(* Amended: the header takes 0x76 + 2 bytes for V1 and 0x7C + 2 bytes for  *)
(* V2-V4 (the common header, the 6 bytes of the extended block when there  *)
(* is one, and the 2 bytes of the little-endian load address).             *)
(***************************************************************************)
PayloadFollows(v1, ext) ==
    Succeeded =>
        LET consumed == IF sid.version = "V1" THEN v1 ELSE ext
        IN  /\ Len(sid.data) = Len(input) - consumed
            /\ sid.data = From(input, consumed)

(* C3 as stated: 0x76 + 9 bytes for V1, 0x7C + 9 bytes for V2-V4 *)
C3_Original == PayloadFollows(\H76 + 9, \H7C + 9)

(* C3 amended: 0x76 + 2 bytes for V1, 0x7C + 2 bytes for V2-V4 *)
C3_PayloadLength == PayloadFollows(\H76 + 2, \H7C + 2)

C3_Witness ==
    /\ Succeeded
    /\ sid.version = "V3"
    /\ Len(input) = \H7E + 2
    /\ sid.data = <<\HA9, \H00>>

(***************************************************************************)
(* C4.  On success flags, start_page, page_length, second_sid_address and  *)
(* third_sid_address are all present or all absent, and present iff the    *)
(* version is not V1; a V1 file gives none of its bytes to them: the load  *)
(* address of the data is read at 0x76.                                    *)
(***************************************************************************)
C4_VersionGating ==
    Succeeded =>
        LET present == sid.version # "V1"
            optional == <<sid.flags, sid.start_page, sid.page_length,
                          sid.second_sid_address, sid.third_sid_address>>
        IN  /\ (sid.version = "V1") = (WordOf(input, 4) = 1)
            /\ \A i \in 1..5 : Len(optional[i]) = IF present THEN 1 ELSE 0
            /\ present =>
                  /\ sid.start_page = <<ByteOf(input, \H78)>>
                  /\ sid.page_length = <<ByteOf(input, \H79)>>
                  /\ sid.second_sid_address = <<ByteOf(input, \H7A)>>
                  /\ sid.third_sid_address = <<ByteOf(input, \H7B)>>
            /\ ~present => reader.pos - Len(sid.data) = \H76 + 2

C4_Witness ==
    /\ Succeeded
    /\ sid.version = "V1"
    /\ sid.flags = <<>>
    /\ sid.real_load_address = \H1234

(***************************************************************************)
(* The header as the file format lays it out: each field's statement, its  *)
(* offset and its width, in byte order.  A file whose version word is 1    *)
(* has no extended block.                                                  *)
(***************************************************************************)
Field(at, off, width) == [at |-> at, off |-> off, width |-> width]

CommonFields ==
    <<Field("file_type", 0, 4), Field("version", 4, 2),
      Field("data_offset", 6, 2), Field("load_address", 8, 2),
      Field("init_address", 10, 2), Field("play_address", 12, 2),
      Field("songs", 14, 2), Field("start_song", 16, 2), Field("speed", 18, 4),
      Field("name", 22, 32), Field("author", 54, 32), Field("released", 86, 32)>>

FieldsOf(f) ==
    IF Len(f) >= 6 /\ WordOf(f, 4) = 1
    THEN CommonFields \o <<Field("V1.real_load_address", 118, 2)>>
    ELSE CommonFields
         \o <<Field("flags", 118, 2), Field("start_page", 120, 1),
              Field("page_length", 121, 1), Field("second_sid_address", 122, 1),
              Field("third_sid_address", 123, 1),
              Field("real_load_address", 124, 2)>>

Truncated(f, fld) == fld.off + fld.width > Len(f)

InitAddressOk(a) == a \in \H07E8..\H9FFF \/ a \in \HC000..\HCFFF

(* the error the format's rules give a field that is present, "" if none  *)
RuleOf(f, fld) ==
    LET rsid == LongOf(f, 0) = RSID
        w == WordOf(f, fld.off)
    IN  CASE fld.at = "file_type" ->
                IF LongOf(f, 0) \in {RSID, PSID} THEN "" ELSE "Invalid file_type"
          [] fld.at = "version" ->
                IF w \in 1..4 THEN "" ELSE "Invalid version"
          [] fld.at = "data_offset" ->
                IF w = (IF WordOf(f, 4) = 1 THEN \H76 ELSE \H7C) THEN ""
                ELSE "Invalid data offset"
          [] fld.at = "init_address" ->
                IF rsid /\ ~InitAddressOk(w) THEN "Invalid init address" ELSE ""
          [] fld.at = "play_address" ->
                IF rsid /\ w # 0 THEN "Invalid play address" ELSE ""
          [] fld.at = "songs" ->
                IF w \in 1..256 THEN "" ELSE "Invalid number of songs"
          [] fld.at = "start_song" ->
                IF w <= WordOf(f, 14) THEN "" ELSE "Invalid start song"
          [] fld.at = "speed" ->
                IF rsid /\ LongOf(f, 18) # 0 THEN "Invalid speed" ELSE ""
          [] fld.at = "flags" ->
                IF Reserved(w) THEN "Invalid flags" ELSE ""
          [] OTHER -> ""

ErrorOf(f, fld) == IF Truncated(f, fld) THEN UnexpectedEof ELSE RuleOf(f, fld)

(* the first field, in byte order, that is truncated or breaks its rule;  *)
(* 0 if there is none                                                      *)
FirstBad(f) ==
    LET flds == FieldsOf(f)
        bad == {i \in 1..Len(flds) : ErrorOf(f, flds[i]) # ""}
    IN  IF bad = {} THEN 0 ELSE CHOOSE i \in bad : \A j \in bad : i <= j

(***************************************************************************)
(* C5.  When decode fails, the error is that of the lowest-offset header   *)
(* field that is truncated or invalid, and there is no result.             *)
(***************************************************************************)
C5_FirstBadFieldReported ==
    err # "" =>
        LET i == FirstBad(input)
        IN  /\ result = <<>>
            /\ i # 0
            /\ pc = FieldsOf(input)[i].at
            /\ err = ErrorOf(input, FieldsOf(input)[i])

(* C5 with the flags rule as get_flags applies it (bits 9-14): the order   *)
(* of the errors apart from the reserved-bit test                          *)
FlagsRuleOfCode(f) == (WordOf(f, \H76) \div 512) % 64 # 0

FlagsRulesDiffer(f) ==
    /\ Len(f) >= \H78
    /\ WordOf(f, 4) # 1
    /\ FlagsRuleOfCode(f) # Reserved(WordOf(f, \H76))

C5_ApartFromFlags ==
    (err # "" /\ ~FlagsRulesDiffer(input)) => C5_FirstBadFieldReported

(***************************************************************************)
(* C6.  A decoded RSID file has play_address = 0, speed = 0 and an         *)
(* init_address in [0x07E8, 0x9FFF] or [0xC000, 0xCFFF]; an RSID input     *)
(* that breaks one of these never decodes, and the statement that reads    *)
(* the field fails with that field's error exactly when the field breaks   *)
(* its rule; on a PSID input none of the three errors is ever returned.    *)
(***************************************************************************)
IsRSID(f) == Len(f) >= 4 /\ LongOf(f, 0) = RSID

IsPSID(f) == Len(f) >= 4 /\ LongOf(f, 0) = PSID

BreaksRSIDRules(f) ==
    \/ Len(f) >= 12 /\ ~InitAddressOk(WordOf(f, 10))
    \/ Len(f) >= 14 /\ WordOf(f, 12) # 0
    \/ Len(f) >= 22 /\ LongOf(f, 18) # 0

C6_RSIDRules ==
    /\ (Succeeded /\ sid.file_type = "RSID") =>
          /\ IsRSID(input)
          /\ sid.play_address = 0
          /\ sid.speed = 0
          /\ InitAddressOk(sid.init_address)
    /\ (IsRSID(input) /\ BreaksRSIDRules(input)) => ~Succeeded
    /\ IsRSID(input) =>
          /\ FailedAt("init_address", 10, 2) =>
                err = "Invalid init address" /\ ~InitAddressOk(WordOf(input, 10))
          /\ Bound("init_address") => InitAddressOk(WordOf(input, 10))
          /\ FailedAt("play_address", 12, 2) =>
                err = "Invalid play address" /\ WordOf(input, 12) # 0
          /\ Bound("play_address") => WordOf(input, 12) = 0
          /\ FailedAt("speed", 18, 4) =>
                err = "Invalid speed" /\ LongOf(input, 18) # 0
          /\ Bound("speed") => LongOf(input, 18) = 0
    /\ IsPSID(input) =>
          /\ err \notin {"Invalid init address", "Invalid play address",
                         "Invalid speed"}
          /\ ~FailedAt("init_address", 10, 2)
          /\ ~FailedAt("play_address", 12, 2)
          /\ ~FailedAt("speed", 18, 4)
          /\ Bound("init_address") => local.init_address = WordOf(input, 10)
          /\ Bound("play_address") => local.play_address = WordOf(input, 12)
          /\ Bound("speed") => local.speed = LongOf(input, 18)

C6_Witness ==
    /\ IsRSID(input)
    /\ err = "Invalid play address"
    /\ InitAddressOk(WordOf(input, 10))
    /\ WordOf(input, 12) = \HFFFF

(***************************************************************************)
(* C7.  With the earlier fields valid, decode fails with "Invalid number   *)
(* of songs" exactly when songs is outside [1, 256], and otherwise with    *)
(* "Invalid start song" exactly when start_song > songs; 0 and songs are   *)
(* accepted start songs, so a result has 1 <= songs <= 256 and             *)
(* 0 <= start_song <= songs.                                               *)
(***************************************************************************)
C7_SongBounds ==
    /\ FailedAt("songs", 14, 2) =>
          err = "Invalid number of songs" /\ WordOf(input, 14) \notin 1..256
    /\ Bound("songs") =>
          local.songs = WordOf(input, 14) /\ local.songs \in 1..256
    /\ FailedAt("start_song", 16, 2) =>
          err = "Invalid start song" /\ WordOf(input, 16) > WordOf(input, 14)
    /\ Bound("start_song") =>
          /\ local.start_song = WordOf(input, 16)
          /\ local.start_song \in 0..local.songs
    /\ Succeeded =>
          /\ sid.songs = WordOf(input, 14)
          /\ sid.start_song = WordOf(input, 16)
          /\ sid.songs \in 1..256
          /\ sid.start_song \in 0..sid.songs

C7_Witness ==
    /\ Succeeded
    /\ sid.songs = 256
    /\ sid.start_song = 256

(***************************************************************************)
(* C10.  On success, with d the decoded data_offset (0x76 for V1, 0x7C for *)
(* V2-V4), real_load_address is input[d] + 256 * input[d + 1] and the      *)
(* payload is the input from d + 2 on, whatever load_address is; the       *)
(* other multi-byte fields are the big-endian words at their offsets.      *)
(***************************************************************************)
C10_RealLoadAddress ==
    Succeeded =>
        LET d == sid.data_offset
        IN  /\ d = IF sid.version = "V1" THEN \H76 ELSE \H7C
            /\ d = WordOf(input, 6)
            /\ sid.load_address = WordOf(input, 8)
            /\ sid.init_address = WordOf(input, 10)
            /\ sid.play_address = WordOf(input, 12)
            /\ sid.songs = WordOf(input, 14)
            /\ sid.start_song = WordOf(input, 16)
            /\ sid.speed = LongOf(input, 18)
            /\ sid.real_load_address = ByteOf(input, d) + 256 * ByteOf(input, d + 1)
            /\ sid.data = From(input, d + 2)

C10_Witness ==
    /\ Succeeded
    /\ sid.load_address = 0
    /\ sid.real_load_address = \H12FF
    /\ ByteOf(input, sid.data_offset) = \HFF
    /\ Len(sid.data) = 2

(***************************************************************************)
(* C8.  Every proper prefix of a decoded input that ends in or before      *)
(* real_load_address fails with the truncation error at the first field    *)
(* that lacks bytes (never a success, never a validation error, never a    *)
(* read past the end of the buffer); the prefix that ends right after      *)
(* real_load_address decodes to the same file with an empty payload.       *)
(***************************************************************************)
HeaderLen(f) ==
    LET last == FieldsOf(f)[Len(FieldsOf(f))] IN last.off + last.width

FirstLacking(f, n) ==
    LET flds == FieldsOf(f)
        short == {i \in 1..Len(flds) : flds[i].off + flds[i].width > n}
    IN  flds[CHOOSE i \in short : \A j \in short : i <= j]

C8_TruncatedPrefixes ==
    /\ RunIsParse
    /\ reader.pos <= Len(input)
    /\ err = UnexpectedEof =>
          \E i \in 1..Len(FieldsOf(input)) :
              LET fld == FieldsOf(input)[i]
              IN  /\ fld.at = pc
                  /\ reader.pos = fld.off
                  /\ Truncated(input, fld)
    /\ Succeeded =>
          /\ \A n \in 0..(HeaderLen(input) - 1) :
                parse(Prefix(input, n)) =
                    Returned(FirstLacking(input, n).at, UnexpectedEof, <<>>)
          /\ parse(Prefix(input, HeaderLen(input))) =
                Returned("return", "", <<[sid EXCEPT !.data = <<>>]>>)

C8_Witness ==
    /\ Succeeded
    /\ sid.version = "V2"
    /\ Len(sid.data) = 1
    /\ parse(Prefix(input, \H77)) = Returned("flags", UnexpectedEof, <<>>)
    /\ parse(Prefix(input, \H7E)).result # <<>>

(***************************************************************************)
(* C9.  The text of an ASCII name, author or released slot is the slot's   *)
(* 32 bytes without its trailing NUL bytes, nothing else changed: leading  *)
(* and interior NUL bytes stay, and a slot with no NUL byte is its own 32  *)
(* characters.                                                             *)
(***************************************************************************)
WithoutTrailingNul(s) ==
    LET keep == {i \in 1..Len(s) : s[i] # 0}
    IN  IF keep = {} THEN <<>>
        ELSE SubSeq(s, 1, CHOOSE i \in keep : \A j \in keep : i >= j)

IsAscii(s) == \A i \in 1..Len(s) : s[i] < 128

SlotOf(f, off) == SubSeq(f, off + 1, off + 32)

TextOfSlot(name, off) ==
    (Bound(name) /\ IsAscii(SlotOf(input, off))) =>
        local[name] = WithoutTrailingNul(SlotOf(input, off))

C9_OnlyTrailingNulStripped ==
    /\ TextOfSlot("name", 22)
    /\ TextOfSlot("author", 54)
    /\ TextOfSlot("released", 86)

====
